---- MODULE Spec2Model ----
(***************************************************************************)
(* The Alarms component of AlarmBoard (the two-backend version of          *)
(* src/alarms/Alarms.tsx): the aggregation round fetchData, which asks     *)
(* /api100 and then /api69 for their alarms, the one-second countdown      *)
(* ticker with its auto-refresh switch, and the manual refresh button.     *)
(*                                                                         *)
(* The browser runs the component on one thread: every handler, effect     *)
(* and continuation after an await runs to completion, so each of them is  *)
(* one action.  A running fetchData is a record of `rounds` that holds its *)
(* locals and the request it awaits; the backends answer by the actions    *)
(* LoginOk, LoginFail, AlarmsOk and AlarmsFail.                            *)
(*                                                                         *)
(* Payloads are the ones the declared type AlarmsResponse allows.  For     *)
(* those no statement of fetchData outside the two inner try blocks        *)
(* throws (loadComment catches its own failure), so the outer catch that   *)
(* sets err is not entered and a round leaves err as its first statements  *)
(* set it.                                                                 *)
(*                                                                         *)
(* localStorage is the function `store`.  A call of getItem or setItem     *)
(* either returns or throws; which of the two is an input of the action    *)
(* that makes the call, all reads of one hydration faring alike.  The      *)
(* session starts with nothing stored.                                     *)
(*                                                                         *)
(* The specifications share the actions.  Spec is the scheduler and the    *)
(* aggregation: the first load, the ticker through its whole countdown,    *)
(* the auto-refresh switch, the button and the backends, with rounds that  *)
(* overlap.  NotesSpec adds the comment fields to the rounds of the first  *)
(* load and the button, ViewSpec the filters, the sort and the columns;    *)
(* both leave the ticker's expiry to Spec.  ProjSpec filters and sorts the *)
(* rows of one batch of alarms that carry a priority, a time and a value.  *)
(* AuthSpec, FlagsSpec and OverlapSpec are the scheduler with auto-refresh *)
(* left on, and with logins that answer with different tokens, with a user *)
(* who changes the acknowledged filter, and with the history of the order  *)
(* of the rounds.                                                          *)
(***************************************************************************)
EXTENDS Integers, Sequences, FiniteSets, TLC

VARIABLES
    phase,           \* position of the first load: rendered, fetched, ready
    rows,            \* useState<Row[]>
    loading,         \* useState(false)
    err,             \* useState('')
    connectionNote,  \* useState('')
    fSite,           \* useState('')
    fPoint,          \* useState('')
    fValue,          \* useState('')
    fDateFrom,       \* useState('')
    fDateTo,         \* useState('')
    fPriority,       \* useState('')
    fAck,            \* useState<'all' | 'sim' | 'nao'>
    fDisc,           \* useState<'all' | 'sim' | 'nao'>
    sortKey,         \* useState<SortKey>('dateTime')
    sortDir,         \* useState<SortDir>('desc')
    visibleCols,     \* useState<VisibleCols>(() => loadVisibleCols())
    autoRefresh,     \* useState(true)
    secondsLeft,     \* useState(60)
    intervalRef,     \* useRef<number | null>: 0 is null, 1 a timer handle
    liveIntervals,   \* number of intervals set and not yet cleared
    tickClosure,     \* the fAck, fDisc seen by the fetchData the ticker calls
    comments,        \* useState<Record<string, string>>
    store,           \* localStorage: key -> text
    rounds,          \* the executions of fetchData in flight, oldest first
    last,            \* history: the locals itemsAll, successes, failures,
                     \* c100, c69 of the execution of fetchData that ended
                     \* last (no outcome in it: none has ended) and, in the
                     \* specification that tracks the order of the rounds,
                     \* whether one started before it was still running
    entered          \* history: row id -> the text the user typed last for
                     \* it and has not stored since, with what became of it:
                     \* "typed" (no commit yet) or "failed" (the commit's
                     \* write failed)

\* the filters kept in the browser only, the sort and the columns
viewVars == <<fSite, fPoint, fValue, fDateFrom, fDateTo, fPriority, sortKey, sortDir,
              visibleCols>>

vars == <<phase, rows, loading, err, connectionNote, fAck, fDisc, autoRefresh,
          secondsLeft, intervalRef, liveIntervals, tickClosure, comments,
          store, rounds, last, viewVars, entered>>

(***************************************************************************)
(* Bounds of the model.                                                    *)
(***************************************************************************)
\* executions of fetchData that may be in flight together
MaxInFlight == 2
\* items in a backend's non-empty answer (local ids "1" .. "MaxItems")
MaxItems == 2
\* filters that may be set at the same time
MaxFilters == 1

(***************************************************************************)
(* Program constants.                                                      *)
(***************************************************************************)
\* the countdown restarts at 60 seconds
Interval == 60

IP100 == "10.2.1.100"
IP69 == "10.2.1.69"
API100 == "/api100"
API69 == "/api69"

\* the access tokens a login answers with
Tokens == {"token-1", "token-2"}

AToken == "token-1"

\* the backend a proxy prefix stands for
IpOf(prefix) == IF prefix = API100 THEN IP100 ELSE IP69

\* an answer of a backend: n items with the local ids "1" .. "n"
Payload(n) == [k \in 1..n |-> [id |-> ToString(k)]]
\* the answers considered: no alarm, or MaxItems alarms
Payloads == {Payload(0), Payload(MaxItems)}

\* what the alarms that are filtered and sorted carry, those of /api100
\* and those of /api69: the priority, the time and the trigger value (no
\* value: the empty text)
AlarmKinds(prefix) ==
    IF prefix = API100
        THEN <<[priority |-> 1, creationTime |-> "2025-01-15T10:00:00Z",
                triggerValue |-> [value |-> <<"1", "2", ",", "5">>]],
               [priority |-> 2, creationTime |-> "2025-01-15T10:00:00Z",
                triggerValue |-> [value |-> <<"1", "2", ".", "5", "0">>]],
               [priority |-> 12, creationTime |-> "2025-01-15T11:30:00Z",
                triggerValue |-> [value |-> <<"9">>]]>>
        ELSE <<[priority |-> 2, creationTime |-> "2025-01-15T11:30:00Z",
                triggerValue |-> [value |-> <<"1", "2", ".", "5">>]],
               [priority |-> 3, creationTime |-> "2025-01-15T10:00:00Z",
                triggerValue |-> [value |-> <<"\"", "O", "n", "\"">>]],
               [priority |-> 0 - 1, creationTime |-> "2025-01-15T11:30:00Z",
                triggerValue |-> [value |-> <<>>]]>>

\* the answers of MaxItems such alarms, with the local ids "1" .. "MaxItems"
AlarmPayloads(prefix) ==
    {[k \in 1..MaxItems |-> [id |-> ToString(k)] @@ AlarmKinds(prefix)[f[k]]] :
        f \in [1..MaxItems -> 1..Len(AlarmKinds(prefix))]}

\* Faulty variant: the row id is the backend's own id, without the address
ComposedIdLocal(fromIp, id) == id

\* const composedId = `${fromIp}-${a.id}`
ComposedId(fromIp, id) == fromIp \o "-" \o id

\* Faulty variant: one key for the comments of all alarms
COMMENT_KEY_Shared(id) == "alarm_comment_"

\* const COMMENT_KEY = (id) => `alarm_comment_${id}`
COMMENT_KEY(id) == "alarm_comment_" \o id

\* localStorage.setItem(key, text) that returns
setItem(key, text) ==
    [k \in DOMAIN store \cup {key} |-> IF k = key THEN text ELSE store[k]]

\* try { return localStorage.getItem(COMMENT_KEY(id)) ?? ''; } catch { return ''; }
\* readable: getItem returns (it throws when the browser denies the storage)
loadComment(id, readable) ==
    IF readable /\ COMMENT_KEY(id) \in DOMAIN store THEN store[COMMENT_KEY(id)] ELSE ""

\* try { localStorage.setItem(COMMENT_KEY(id), text); } catch {}
\* written: setItem returns (it throws when the quota is used up or the
\* browser denies the storage)
saveComment(id, text, written) ==
    store' = IF written THEN setItem(COMMENT_KEY(id), text) ELSE store

COLS_KEY == "alarms_visible_cols"

\* the columns in the order of the object that loadVisibleCols returns
ColNames == <<"dateTime", "site", "point", "value", "unit", "priority",
              "reconhecido", "descartado", "comentario">>

\* JSON.stringify(cols): the keys keep the order in which the object got them
RECURSIVE Members(_, _)
Members(cols, k) ==
    LET m == "\"" \o ColNames[k] \o "\":" \o (IF cols[ColNames[k]] THEN "true" ELSE "false")
    IN  IF k = Len(ColNames) THEN m ELSE m \o "," \o Members(cols, k + 1)

Stringify(cols) == "{" \o Members(cols, 1) \o "}"

\* try { localStorage.setItem(COLS_KEY, JSON.stringify(cols)); } catch {}
saveVisibleCols(cols, written) ==
    store' = IF written THEN setItem(COLS_KEY, Stringify(cols)) ELSE store

\* loadVisibleCols() of a browser that holds no stored choice: every column
loadVisibleCols == [c \in {ColNames[k] : k \in 1..Len(ColNames)} |-> TRUE]

\* isAcknowledged: fAck === 'all' ? undefined : fAck === 'sim'
TriState(f) == IF f = "all" THEN "undefined" ELSE IF f = "sim" THEN "true" ELSE "false"

Opts(closure) ==
    [isAcknowledged |-> TriState(closure.fAck), isDiscarded |-> TriState(closure.fDisc)]

\* the render's fAck and fDisc, which a fetchData created by it reads
Closure == [fAck |-> fAck, fDisc |-> fDisc]

(***************************************************************************)
(* fetchData up to its first await: the flags are set, the locals are      *)
(* created and fetchFrom('/api100') has sent its login request.            *)
(***************************************************************************)
NewRound(closure) ==
    [opts      |-> Opts(closure),
     await     |-> [prefix |-> API100, call |-> "login"],
     itemsAll  |-> <<>>,
     successes |-> <<>>,
     failures  |-> <<>>,
     c100      |-> 0,
     c69       |-> 0]

fetchData(closure) ==
    /\ Len(rounds) < MaxInFlight
    /\ loading' = TRUE
    /\ err' = ""
    /\ connectionNote' = ""
    /\ rounds' = Append(rounds, NewRound(closure))

(***************************************************************************)
(* The end of fetchData, after the second inner try block: the status      *)
(* note, the rows, the comments, and the finally block.                    *)
(***************************************************************************)
\* Faulty variant: the branch for two failures sets no note
StatusNoteSilent(r) ==
    IF Len(r.successes) = 2
        THEN "Conectado (100: " \o ToString(r.c100) \o " + 69: " \o ToString(r.c69) \o ")"
    ELSE IF Len(r.successes) = 1
        THEN "Parcial - ok: " \o r.successes[1] \o " / falha: " \o r.failures[1]
    ELSE ""

\* Faulty variant: the partial note names the two backends the wrong way round
StatusNoteSwapped(r) ==
    IF Len(r.successes) = 2
        THEN "Conectado (100: " \o ToString(r.c100) \o " + 69: " \o ToString(r.c69) \o ")"
    ELSE IF Len(r.successes) = 1
        THEN "Parcial - ok: " \o r.failures[1] \o " / falha: " \o r.successes[1]
    ELSE "Falha nas duas conexoes"

Join(s) == IF Len(s) = 1 THEN s[1] ELSE s[1] \o ", " \o s[2]

StatusNote(r) ==
    IF Len(r.successes) = 2
        THEN "Conectado (100: " \o ToString(r.c100) \o " + 69: " \o ToString(r.c69) \o ")"
    ELSE IF Len(r.successes) = 1
        THEN "Parcial - ok: " \o r.successes[1] \o " / falha: " \o Join(r.failures)
    ELSE "Falha nas duas conexoes"

(***************************************************************************)
(* Texts and numbers.  A text that is taken apart (a value, the priority   *)
(* filter) is the sequence of its characters; a number is m / 10^e with    *)
(* the least e, so that equal numbers are equal records.                   *)
(***************************************************************************)
\* the value that is no number, and the value of a variable not assigned
NaN == [nan |-> TRUE]

undefined == [undefined |-> TRUE]

Digits == <<"0", "1", "2", "3", "4", "5", "6", "7", "8", "9">>

IsDigit(c) == \E d \in 1..10 : Digits[d] = c

DigitValue(c) == (CHOOSE d \in 1..10 : Digits[d] = c) - 1

AllDigits(s) == \A i \in 1..Len(s) : IsDigit(s[i])

Least(S) == CHOOSE x \in S : \A y \in S : x <= y

Greatest(S) == CHOOSE x \in S : \A y \in S : y <= x

RECURSIVE Natural(_)
\* the number a sequence of digits writes
Natural(ds) ==
    IF ds = <<>> THEN 0
    ELSE 10 * Natural(SubSeq(ds, 1, Len(ds) - 1)) + DigitValue(ds[Len(ds)])

RECURSIVE Pow10(_)
Pow10(n) == IF n = 0 THEN 1 ELSE 10 * Pow10(n - 1)

\* the fraction digits without the zeros at their end
Significant(fr) ==
    LET nz == {i \in 1..Len(fr) : fr[i] # "0"}
    IN  IF nz = {} THEN <<>> ELSE SubSeq(fr, 1, Greatest(nz))

\* an integer as a number
Num(n) == [m |-> n, e |-> 0]

\* x - y, up to a positive factor
Minus(x, y) ==
    LET e == IF x.e < y.e THEN y.e ELSE x.e
    IN  x.m * Pow10(e - x.e) - y.m * Pow10(e - y.e)

\* String.prototype.trim, the white space being the blank
trim(s) ==
    LET ink == {i \in 1..Len(s) : s[i] # " "}
    IN  IF ink = {} THEN <<>> ELSE SubSeq(s, Least(ink), Greatest(ink))

\* String.prototype.includes
includes(h, n) == \E i \in 0..(Len(h) - Len(n)) : SubSeq(h, i + 1, i + Len(n)) = n

\* the number the decimal literal s writes (a sign, digits, a point,
\* digits: at least one digit), NaN if s is none
Decimal(s) ==
    LET signed == s # <<>> /\ s[1] \in {"+", "-"}
        body   == IF signed THEN Tail(s) ELSE s
        points == {i \in 1..Len(body) : body[i] = "."}
        int    == IF points = {} THEN body ELSE SubSeq(body, 1, Least(points) - 1)
        rest   == IF points = {} THEN <<>> ELSE SubSeq(body, Least(points) + 1, Len(body))
        fr     == Significant(rest)
        abs    == Natural(int \o fr)
    IN  IF AllDigits(int) /\ AllDigits(rest) /\ Len(int) + Len(rest) > 0
            THEN [m |-> IF s[1] = "-" THEN 0 - abs ELSE abs, e |-> Len(fr)]
            ELSE NaN

\* Number(text) of a text in decimal notation: the white space around it is
\* skipped, the empty text is 0.  (Exponents, hexadecimal literals and
\* Infinity are not among the texts of the model.)
Number(s) == IF trim(s) = <<>> THEN Num(0) ELSE Decimal(trim(s))

\* parseFloat: the longest decimal literal that starts the text, white space
\* skipped
parseFloat(s) ==
    LET ink  == {i \in 1..Len(s) : s[i] # " "}
        t    == IF ink = {} THEN <<>> ELSE SubSeq(s, Least(ink), Len(s))
        lits == {n \in 1..Len(t) : Decimal(SubSeq(t, 1, n)) # NaN}
    IN  IF lits = {} THEN NaN ELSE Decimal(SubSeq(t, 1, Greatest(lits)))

\* String(n) of an integer
RECURSIVE NaturalString(_)
NaturalString(n) ==
    IF n < 10 THEN <<Digits[n + 1]>> ELSE NaturalString(n \div 10) \o <<Digits[(n % 10) + 1]>>

IntegerString(n) == IF n < 0 THEN <<"-">> \o NaturalString(0 - n) ELSE NaturalString(n)

\* the digits of n, with zeros in front up to the length e
Padded(n, e) ==
    LET ds == NaturalString(n)
    IN  [k \in 1..(e - Len(ds)) |-> "0"] \o ds

\* String(x) of a number (of a size written without exponent)
NumberString(x) ==
    LET abs == IF x.m < 0 THEN 0 - x.m ELSE x.m
    IN  (IF x.m < 0 THEN <<"-">> ELSE <<>>)
            \o NaturalString(abs \div Pow10(x.e))
            \o (IF x.e = 0 THEN <<>> ELSE <<".">> \o Padded(abs % Pow10(x.e), x.e))

\* a.value.replace(',', '.'): the first comma becomes a point
replaceComma(s) ==
    LET commas == {i \in 1..Len(s) : s[i] = ","}
    IN  IF commas = {} THEN s ELSE [s EXCEPT ![Least(commas)] = "."]

\* raw.replaceAll('"', '')
Unquoted(s) == SelectSeq(s, LAMBDA c : c # "\"")

\* raw is a number of JSON: no plus sign, a digit on either side of the
\* point, no zero in front of another digit
JsonNumber(raw) ==
    LET body == IF raw[1] = "-" THEN Tail(raw) ELSE raw
    IN  /\ Decimal(raw) # NaN
        /\ raw[1] # "+"
        /\ IsDigit(body[1])
        /\ IsDigit(body[Len(body)])
        /\ (Len(body) > 1 /\ body[1] = "0") => body[2] = "."

\* raw is a string of JSON without escapes
JsonString(raw) ==
    /\ Len(raw) >= 2
    /\ raw[1] = "\""
    /\ raw[Len(raw)] = "\""
    /\ \A i \in 2..(Len(raw) - 1) : raw[i] # "\""

\* normalizeValue: String(JSON.parse(raw)) of a JSON number or string, the
\* text without its quotes if JSON.parse throws.  (Exponents, objects,
\* arrays and white space around a value are not among the values of the
\* model.)
normalizeValue(raw) ==
    IF raw = <<>> THEN <<>>
    ELSE IF JsonNumber(raw) THEN NumberString(Decimal(raw))
    ELSE IF JsonString(raw) THEN SubSeq(raw, 2, Len(raw) - 1)
    ELSE Unquoted(raw)

\* new Date(iso).getTime() of the instants the backends send, in seconds
getTime(iso) ==
    CASE iso = "2025-01-15T10:00:00Z" -> 1736935200
      [] iso = "2025-01-15T11:30:00Z" -> 1736940600

\* the rank of a character in the collation of the browser's locale:
\* punctuation, then digits, then letters
Collation == <<"\"", "-", ",", ".", "0", "1", "2", "3", "4", "5", "6", "7", "8", "9", "n", "O">>

Rank(c) == CHOOSE k \in 1..Len(Collation) : Collation[k] = c

RECURSIVE localeCompare(_, _)
\* a.localeCompare(b): -1, 0 or 1
localeCompare(a, b) ==
    IF a = <<>> THEN (IF b = <<>> THEN 0 ELSE 0 - 1)
    ELSE IF b = <<>> THEN 1
    ELSE IF Rank(a[1]) < Rank(b[1]) THEN 0 - 1
    ELSE IF Rank(a[1]) > Rank(b[1]) THEN 1
    ELSE localeCompare(Tail(a), Tail(b))

(***************************************************************************)
(* The rows of a round: mapped = itemsAll.map(...).  Of an alarm of which  *)
(* the model keeps the id only, the row keeps the id only.                 *)
(***************************************************************************)
Row(fromIp, a) ==
    IF DOMAIN a = {"id"}
        THEN [id |-> ComposedId(fromIp, a.id)]
        ELSE [id          |-> ComposedId(fromIp, a.id),
              dateTimeISO |-> a.creationTime,
              value       |-> normalizeValue(a.triggerValue.value),
              priority    |-> IF a.priority \in Int THEN a.priority ELSE 0]

Mapped(itemsAll) ==
    [k \in 1..Len(itemsAll) |-> Row(itemsAll[k].fromIp, itemsAll[k].item)]

\* Faulty variant: only the rows that have a stored text get an entry
HydrateStoredOnly(mapped, readable) ==
    [id \in {i \in {mapped[k].id : k \in 1..Len(mapped)} : COMMENT_KEY(i) \in DOMAIN store}
        |-> loadComment(id, readable)]

\* for (const r of mapped) nextComments[r.id] = loadComment(r.id)
Hydrate(mapped, readable) ==
    [id \in {mapped[k].id : k \in 1..Len(mapped)} |-> loadComment(id, readable)]

RemoveAt(s, i) == [k \in 1..(Len(s) - 1) |-> IF k < i THEN s[k] ELSE s[k + 1]]

\* the locals of r that the history keeps, and the place for the order of
\* the rounds
Outcome(r) ==
    [itemsAll |-> r.itemsAll, successes |-> r.successes, failures |-> r.failures,
     c100 |-> r.c100, c69 |-> r.c69, overtook |-> "untracked"]

\* the order of the rounds, where the history tracks it: "yes" if the
\* round that ends, the i-th in flight, started after another in flight
Overtook(i) ==
    IF last.overtook = "untracked" THEN "untracked" ELSE IF i > 1 THEN "yes" ELSE "no"

\* Faulty variant: the finally block clears loading but leaves the countdown
FinishKeepsCountdown(i, r) ==
    /\ last' = [Outcome(r) EXCEPT !.overtook = Overtook(i)]
    /\ connectionNote' = StatusNote(r)
    /\ rows' = Mapped(r.itemsAll)
    /\ comments' \in {Hydrate(Mapped(r.itemsAll), readable) : readable \in BOOLEAN}
    /\ loading' = FALSE
    /\ rounds' = RemoveAt(rounds, i)
    /\ UNCHANGED <<err, secondsLeft>>

Finish(i, r) ==
    /\ last' = [Outcome(r) EXCEPT !.overtook = Overtook(i)]
    /\ connectionNote' = StatusNote(r)
    /\ rows' = Mapped(r.itemsAll)
    /\ comments' \in {Hydrate(Mapped(r.itemsAll), readable) : readable \in BOOLEAN}
    /\ loading' = FALSE
    /\ secondsLeft' = Interval
    /\ rounds' = RemoveAt(rounds, i)
    /\ UNCHANGED err

\* Faulty variant: a failure of /api100 ends the round at once, /api69 is never asked
SettleShortCircuit(i, r) ==
    IF r.await.prefix = API100 /\ Len(r.failures) = 0
        THEN /\ rounds' = [rounds EXCEPT ![i] =
                              [r EXCEPT !.await = [prefix |-> API69, call |-> "login"]]]
             /\ UNCHANGED <<rows, loading, err, connectionNote, secondsLeft, comments, last>>
        ELSE Finish(i, r)

(***************************************************************************)
(* What follows the end of one inner try block, r being the round with     *)
(* the backend's outcome recorded: after /api100 the login to /api69 is    *)
(* sent, after /api69 the round finishes.                                  *)
(***************************************************************************)
Settle(i, r) ==
    IF r.await.prefix = API100
        THEN /\ rounds' = [rounds EXCEPT ![i] =
                              [r EXCEPT !.await = [prefix |-> API69, call |-> "login"]]]
             /\ UNCHANGED <<rows, loading, err, connectionNote, secondsLeft, comments, last>>
        ELSE Finish(i, r)

\* catch (e) { failures.push(ip) }
Failed(r) == [r EXCEPT !.failures = Append(@, IpOf(r.await.prefix))]

\* Faulty variant: the items are merged but the success is not recorded
SucceededUnrecorded(r, items) ==
    [r EXCEPT
        !.c100 = IF r.await.prefix = API100 THEN Len(items) ELSE @,
        !.c69 = IF r.await.prefix = API69 THEN Len(items) ELSE @,
        !.itemsAll = @ \o [k \in 1..Len(items) |->
                              [fromIp |-> IpOf(r.await.prefix), item |-> items[k]]]]

\* Faulty variant: the first item of an answer is counted but not merged
SucceededDropsFirst(r, items) ==
    [r EXCEPT
        !.c100 = IF r.await.prefix = API100 THEN Len(items) ELSE @,
        !.c69 = IF r.await.prefix = API69 THEN Len(items) ELSE @,
        !.itemsAll = @ \o [k \in 1..(Len(items) - 1) |->
                              [fromIp |-> IpOf(r.await.prefix), item |-> items[k + 1]]],
        !.successes = Append(@, IpOf(r.await.prefix))]

\* Faulty variant: an answer is put in front of what has been merged
SucceededPrepends(r, items) ==
    [r EXCEPT
        !.c100 = IF r.await.prefix = API100 THEN Len(items) ELSE @,
        !.c69 = IF r.await.prefix = API69 THEN Len(items) ELSE @,
        !.itemsAll = [k \in 1..Len(items) |->
                         [fromIp |-> IpOf(r.await.prefix), item |-> items[k]]] \o @,
        !.successes = Append(@, IpOf(r.await.prefix))]

\* c = a.length; itemsAll.push(...a.map(i => ({ fromIp, item: i }))); successes.push(ip)
Succeeded(r, items) ==
    [r EXCEPT
        !.c100 = IF r.await.prefix = API100 THEN Len(items) ELSE @,
        !.c69 = IF r.await.prefix = API69 THEN Len(items) ELSE @,
        !.itemsAll = @ \o [k \in 1..Len(items) |->
                              [fromIp |-> IpOf(r.await.prefix), item |-> items[k]]],
        !.successes = Append(@, IpOf(r.await.prefix))]

\* Faulty variant: a step of a round puts the sort back to its default
RoundFrameClearsSort ==
    /\ sortKey' = "dateTime"
    /\ sortDir' = "desc"
    /\ UNCHANGED <<phase, fAck, fDisc, autoRefresh, intervalRef, liveIntervals,
                   tickClosure, store, entered,
                   fSite, fPoint, fValue, fDateFrom, fDateTo, fPriority, visibleCols>>

\* what no statement of fetchData after its first await assigns
RoundFrame == UNCHANGED <<phase, fAck, fDisc, autoRefresh, intervalRef, liveIntervals,
                          tickClosure, store, entered,
                          fSite, fPoint, fValue, fDateFrom, fDateTo, fPriority,
                          sortKey, sortDir, visibleCols>>

\* loginP returns the token: fetchFrom goes on to getAlarmsP
LoginOk(i, token) ==
    /\ phase = "ready"
    /\ i \in 1..Len(rounds)
    /\ rounds[i].await.call = "login"
    /\ rounds' = [rounds EXCEPT ![i].await =
                      [prefix |-> @.prefix, call |-> "alarms", token |-> token]]
    /\ UNCHANGED <<rows, loading, err, connectionNote, secondsLeft, comments, last>>
    /\ RoundFrame

\* Faulty variant: after a failed login the alarms are requested all the
\* same, without a token
LoginFailFetches(i) ==
    /\ phase = "ready"
    /\ i \in 1..Len(rounds)
    /\ rounds[i].await.call = "login"
    /\ rounds' = [rounds EXCEPT ![i].await =
                      [prefix |-> @.prefix, call |-> "alarms", token |-> ""]]
    /\ UNCHANGED <<rows, loading, err, connectionNote, secondsLeft, comments, last>>
    /\ RoundFrame

\* loginP throws: the inner catch records the failure
LoginFail(i) ==
    /\ phase = "ready"
    /\ i \in 1..Len(rounds)
    /\ rounds[i].await.call = "login"
    /\ Settle(i, Failed(rounds[i]))
    /\ RoundFrame

\* getAlarmsP returns data: the items are merged
AlarmsOk(i, items) ==
    /\ phase = "ready"
    /\ i \in 1..Len(rounds)
    /\ rounds[i].await.call = "alarms"
    /\ Settle(i, Succeeded(rounds[i], items))
    /\ RoundFrame

\* getAlarmsP throws: the inner catch records the failure
AlarmsFail(i) ==
    /\ phase = "ready"
    /\ i \in 1..Len(rounds)
    /\ rounds[i].await.call = "alarms"
    /\ Settle(i, Failed(rounds[i]))
    /\ RoundFrame

\* Faulty variant: neither the cleanup nor the branch for autoRefresh off
\* clears the interval
AutoRefreshEffectKeepsTimer(auto, hadCleanup) ==
    IF auto /\ intervalRef = 0
        THEN /\ intervalRef' = 1
             /\ liveIntervals' = liveIntervals + 1
             /\ tickClosure' = Closure
        ELSE UNCHANGED <<intervalRef, liveIntervals, tickClosure>>

(***************************************************************************)
(* The auto-refresh effect, run after a render in which autoRefresh is     *)
(* `auto`; `hadCleanup` says that the effect's previous run returned its   *)
(* cleanup function (it does when autoRefresh was true), which runs first. *)
(***************************************************************************)
AutoRefreshEffect(auto, hadCleanup) ==
    LET refC  == IF hadCleanup THEN 0 ELSE intervalRef
        liveC == IF hadCleanup /\ intervalRef # 0 THEN liveIntervals - 1 ELSE liveIntervals
    IN  IF ~auto
            THEN /\ intervalRef' = 0
                 /\ liveIntervals' = IF refC # 0 THEN liveC - 1 ELSE liveC
                 /\ UNCHANGED tickClosure
        ELSE IF refC = 0
            THEN /\ intervalRef' = 1
                 /\ liveIntervals' = liveC + 1
                 /\ tickClosure' = Closure
        ELSE /\ intervalRef' = refC
             /\ liveIntervals' = liveC
             /\ UNCHANGED tickClosure

(***************************************************************************)
(* First load: the two effects of the first render, in source order.       *)
(***************************************************************************)
\* Faulty variant: the first effect starts no round
MountFetchSkipped ==
    /\ phase = "rendered"
    /\ phase' = "fetched"
    /\ UNCHANGED <<rows, loading, err, connectionNote, rounds, fAck, fDisc, autoRefresh,
                   secondsLeft, intervalRef, liveIntervals, tickClosure, comments, store,
                   last>>
    /\ UNCHANGED <<viewVars, entered>>

\* useEffect(() => { fetchData(); }, [])
MountFetch ==
    /\ phase = "rendered"
    /\ fetchData(Closure)
    /\ phase' = "fetched"
    /\ UNCHANGED <<rows, fAck, fDisc, autoRefresh, secondsLeft, intervalRef,
                   liveIntervals, tickClosure, comments, store, last>>
    /\ UNCHANGED <<viewVars, entered>>

\* useEffect(() => { ... setInterval ... }, [autoRefresh]), first run
MountAutoRefresh ==
    /\ phase = "fetched"
    /\ AutoRefreshEffect(autoRefresh, FALSE)
    /\ phase' = "ready"
    /\ UNCHANGED <<rows, loading, err, connectionNote, fAck, fDisc, autoRefresh,
                   secondsLeft, comments, store, rounds, last>>
    /\ UNCHANGED <<viewVars, entered>>

\* Faulty variant: the callback expires at 0 instead of 1
\* Faulty variant: the expiry starts the round but goes on counting down
TickRunsOn ==
    /\ phase = "ready"
    /\ liveIntervals > 0
    /\ IF secondsLeft <= 1
          THEN /\ fetchData(tickClosure)
               /\ secondsLeft' = secondsLeft - 1
          ELSE /\ secondsLeft' = secondsLeft - 1
               /\ UNCHANGED <<loading, err, connectionNote, rounds>>
    /\ UNCHANGED <<phase, rows, fAck, fDisc, autoRefresh, intervalRef, liveIntervals,
                   tickClosure, comments, store, last>>
    /\ UNCHANGED <<viewVars, entered>>

TickOffByOne ==
    /\ phase = "ready"
    /\ liveIntervals > 0
    /\ IF secondsLeft <= 0
          THEN /\ fetchData(tickClosure)
               /\ secondsLeft' = Interval
          ELSE /\ secondsLeft' = secondsLeft - 1
               /\ UNCHANGED <<loading, err, connectionNote, rounds>>
    /\ UNCHANGED <<phase, rows, fAck, fDisc, autoRefresh, intervalRef, liveIntervals,
                   tickClosure, comments, store, last>>
    /\ UNCHANGED <<viewVars, entered>>

(***************************************************************************)
(* The interval callback: setSecondsLeft(s => s <= 1 ? (fetchData(), 60)   *)
(* : s - 1).  The fetchData it calls is the one of the render that set the *)
(* interval.                                                               *)
(***************************************************************************)
Tick ==
    /\ phase = "ready"
    /\ liveIntervals > 0
    /\ IF secondsLeft <= 1
          THEN /\ fetchData(tickClosure)
               /\ secondsLeft' = Interval
          ELSE /\ secondsLeft' = secondsLeft - 1
               /\ UNCHANGED <<loading, err, connectionNote, rounds>>
    /\ UNCHANGED <<phase, rows, fAck, fDisc, autoRefresh, intervalRef, liveIntervals,
                   tickClosure, comments, store, last>>
    /\ UNCHANGED <<viewVars, entered>>

\* Faulty variant: resuming restarts the countdown
ToggleAutoRefreshRestart ==
    /\ phase = "ready"
    /\ autoRefresh' = ~autoRefresh
    /\ AutoRefreshEffect(~autoRefresh, autoRefresh)
    /\ secondsLeft' = IF autoRefresh THEN secondsLeft ELSE Interval
    /\ UNCHANGED <<phase, rows, loading, err, connectionNote, fAck, fDisc,
                   comments, store, rounds, last>>
    /\ UNCHANGED <<viewVars, entered>>

\* the Auto (1 min) checkbox: setAutoRefresh(e.target.checked), then the effect
ToggleAutoRefresh ==
    /\ phase = "ready"
    /\ autoRefresh' = ~autoRefresh
    /\ AutoRefreshEffect(~autoRefresh, autoRefresh)
    /\ UNCHANGED <<phase, rows, loading, err, connectionNote, fAck, fDisc, secondsLeft,
                   comments, store, rounds, last>>
    /\ UNCHANGED <<viewVars, entered>>

\* Faulty variant: the click itself restarts the countdown
ManualRefreshReset ==
    /\ phase = "ready"
    /\ ~loading
    /\ fetchData(Closure)
    /\ secondsLeft' = Interval
    /\ UNCHANGED <<phase, rows, fAck, fDisc, autoRefresh, intervalRef,
                   liveIntervals, tickClosure, comments, store, last>>
    /\ UNCHANGED <<viewVars, entered>>

\* <button onClick={fetchData} disabled={loading}>
ManualRefresh ==
    /\ phase = "ready"
    /\ ~loading
    /\ fetchData(Closure)
    /\ UNCHANGED <<phase, rows, fAck, fDisc, autoRefresh, secondsLeft, intervalRef,
                   liveIntervals, tickClosure, comments, store, last>>
    /\ UNCHANGED <<viewVars, entered>>

(***************************************************************************)
(* The filter inputs: onChange={(e) => setFSite(e.target.value)} and its   *)
(* seven likes.  A filter is set when it differs from its initial value.   *)
(***************************************************************************)
\* what the user gives the text, date, priority and tri-state filters
Texts == {"", "AHU"}
Dates == {"", "2025-01-15"}
Priorities == {"", "2"}
TriStates == {"all", "sim", "nao"}

One(b) == IF b THEN 1 ELSE 0

ActiveFilters ==
    One(fSite # "") + One(fPoint # "") + One(fValue # "") + One(fDateFrom # "")
        + One(fDateTo # "") + One(fPriority # "") + One(fAck # "all") + One(fDisc # "all")

\* the bound on the filters set together lets this filter take the value
Room(isSet, willBeSet) == willBeSet => ActiveFilters - One(isSet) < MaxFilters

\* what no filter, sort or column handler assigns, the store apart
ViewFrame == UNCHANGED <<phase, rows, loading, err, connectionNote, autoRefresh,
                         secondsLeft, intervalRef, liveIntervals, tickClosure, comments,
                         rounds, last, entered>>

setFSite(value) ==
    /\ phase = "ready"
    /\ Room(fSite # "", value # "")
    /\ fSite' = value
    /\ UNCHANGED <<fPoint, fValue, fDateFrom, fDateTo, fPriority, fAck, fDisc,
                   sortKey, sortDir, visibleCols, store>>
    /\ ViewFrame

setFPoint(value) ==
    /\ phase = "ready"
    /\ Room(fPoint # "", value # "")
    /\ fPoint' = value
    /\ UNCHANGED <<fSite, fValue, fDateFrom, fDateTo, fPriority, fAck, fDisc,
                   sortKey, sortDir, visibleCols, store>>
    /\ ViewFrame

setFValue(value) ==
    /\ phase = "ready"
    /\ Room(fValue # "", value # "")
    /\ fValue' = value
    /\ UNCHANGED <<fSite, fPoint, fDateFrom, fDateTo, fPriority, fAck, fDisc,
                   sortKey, sortDir, visibleCols, store>>
    /\ ViewFrame

setFDateFrom(value) ==
    /\ phase = "ready"
    /\ Room(fDateFrom # "", value # "")
    /\ fDateFrom' = value
    /\ UNCHANGED <<fSite, fPoint, fValue, fDateTo, fPriority, fAck, fDisc,
                   sortKey, sortDir, visibleCols, store>>
    /\ ViewFrame

setFDateTo(value) ==
    /\ phase = "ready"
    /\ Room(fDateTo # "", value # "")
    /\ fDateTo' = value
    /\ UNCHANGED <<fSite, fPoint, fValue, fDateFrom, fPriority, fAck, fDisc,
                   sortKey, sortDir, visibleCols, store>>
    /\ ViewFrame

setFPriority(value) ==
    /\ phase = "ready"
    /\ Room(fPriority # "", value # "")
    /\ fPriority' = value
    /\ UNCHANGED <<fSite, fPoint, fValue, fDateFrom, fDateTo, fAck, fDisc,
                   sortKey, sortDir, visibleCols, store>>
    /\ ViewFrame

setFAck(value) ==
    /\ phase = "ready"
    /\ Room(fAck # "all", value # "all")
    /\ fAck' = value
    /\ UNCHANGED <<fSite, fPoint, fValue, fDateFrom, fDateTo, fPriority, fDisc,
                   sortKey, sortDir, visibleCols, store>>
    /\ ViewFrame

setFDisc(value) ==
    /\ phase = "ready"
    /\ Room(fDisc # "all", value # "all")
    /\ fDisc' = value
    /\ UNCHANGED <<fSite, fPoint, fValue, fDateFrom, fDateTo, fPriority, fAck,
                   sortKey, sortDir, visibleCols, store>>
    /\ ViewFrame

\* Faulty variant: the sort is left as it is
clearFiltersKeepsSort ==
    /\ phase = "ready"
    /\ fSite' = "" /\ fPoint' = "" /\ fValue' = ""
    /\ fDateFrom' = "" /\ fDateTo' = ""
    /\ fPriority' = ""
    /\ fAck' = "all" /\ fDisc' = "all"
    /\ UNCHANGED <<sortKey, sortDir, visibleCols, store>>
    /\ ViewFrame

\* <button onClick={clearFilters}>
clearFilters ==
    /\ phase = "ready"
    /\ fSite' = "" /\ fPoint' = "" /\ fValue' = ""
    /\ fDateFrom' = "" /\ fDateTo' = ""
    /\ fPriority' = ""
    /\ fAck' = "all" /\ fDisc' = "all"
    /\ sortKey' = "dateTime"
    /\ sortDir' = "desc"
    /\ UNCHANGED <<visibleCols, store>>
    /\ ViewFrame

\* Faulty variant: a click on another header keeps the direction
onSortKeepsDir(key) ==
    /\ phase = "ready"
    /\ IF sortKey = key
          THEN /\ sortDir' = (IF sortDir = "asc" THEN "desc" ELSE "asc")
               /\ UNCHANGED sortKey
          ELSE /\ sortKey' = key
               /\ UNCHANGED sortDir
    /\ UNCHANGED <<fSite, fPoint, fValue, fDateFrom, fDateTo, fPriority, fAck, fDisc,
                   visibleCols, store>>
    /\ ViewFrame

\* a click on a column header
onSort(key) ==
    /\ phase = "ready"
    /\ IF sortKey = key
          THEN /\ sortDir' = (IF sortDir = "asc" THEN "desc" ELSE "asc")
               /\ UNCHANGED sortKey
          ELSE /\ sortKey' = key
               /\ sortDir' = "asc"
    /\ UNCHANGED <<fSite, fPoint, fValue, fDateFrom, fDateTo, fPriority, fAck, fDisc,
                   visibleCols, store>>
    /\ ViewFrame

\* a column checkbox: the updater flips the column and saves the choice
toggleCol(col, written) ==
    /\ phase = "ready"
    /\ visibleCols' = [visibleCols EXCEPT ![col] = ~@]
    /\ saveVisibleCols(visibleCols', written)
    /\ UNCHANGED <<fSite, fPoint, fValue, fDateFrom, fDateTo, fPriority, fAck, fDisc,
                   sortKey, sortDir>>
    /\ ViewFrame

(***************************************************************************)
(* The comment field of a row on display (the comment column is shown).    *)
(***************************************************************************)
RowIds == {rows[k].id : k \in 1..Len(rows)}

\* what the user types into a comment field
NoteTexts == {"nota"}

\* Faulty variant: every keystroke is saved
handleCommentChangeSaves(id, value) ==
    /\ phase = "ready"
    /\ visibleCols["comentario"]
    /\ id \in RowIds
    /\ comments' = [k \in DOMAIN comments \cup {id} |-> IF k = id THEN value ELSE comments[k]]
    /\ entered' = [k \in DOMAIN entered \cup {id} |->
                      IF k = id THEN [text |-> value, state |-> "typed"] ELSE entered[k]]
    /\ saveComment(id, value, TRUE)
    /\ UNCHANGED <<phase, rows, loading, err, connectionNote, fAck, fDisc, autoRefresh,
                   secondsLeft, intervalRef, liveIntervals, tickClosure, rounds,
                   last, viewVars>>

\* onChange: setComments((prev) => ({ ...prev, [id]: value }))
handleCommentChange(id, value) ==
    /\ phase = "ready"
    /\ visibleCols["comentario"]
    /\ id \in RowIds
    /\ comments' = [k \in DOMAIN comments \cup {id} |-> IF k = id THEN value ELSE comments[k]]
    /\ entered' = [k \in DOMAIN entered \cup {id} |->
                      IF k = id THEN [text |-> value, state |-> "typed"] ELSE entered[k]]
    /\ UNCHANGED <<phase, rows, loading, err, connectionNote, fAck, fDisc, autoRefresh,
                   secondsLeft, intervalRef, liveIntervals, tickClosure, store, rounds,
                   last, viewVars>>

\* onBlur: saveComment(id, comments[id] ?? '')
handleCommentBlur(id, written) ==
    /\ phase = "ready"
    /\ visibleCols["comentario"]
    /\ id \in RowIds
    /\ saveComment(id, IF id \in DOMAIN comments THEN comments[id] ELSE "", written)
    \* the entered text is no longer pending once it is stored, or once a
    \* commit finds another text in the field
    /\ entered' = IF id \notin DOMAIN entered THEN entered
                  ELSE IF written \/ id \notin DOMAIN comments
                                  \/ comments[id] # entered[id].text
                      THEN [k \in DOMAIN entered \ {id} |-> entered[k]]
                  ELSE [entered EXCEPT ![id].state = "failed"]
    /\ UNCHANGED <<phase, rows, loading, err, connectionNote, fAck, fDisc, autoRefresh,
                   secondsLeft, intervalRef, liveIntervals, tickClosure, comments, rounds,
                   last, viewVars>>

(***************************************************************************)
(* The rows on display: filtered, then sorted.  Of the predicates of       *)
(* `filtered` the model has the one of the priority filter (the others     *)
(* pass every row while their filter is unset), of the comparators of      *)
(* `sorted` those of the time, the priority and the value.                 *)
(***************************************************************************)
\* what the user types into the priority filter
PriorityTexts == {"", " ", "2", " 2 ", "2.0", "-", "x"}

\* the characters of such a text
Chars(t) ==
    CASE t = ""    -> <<>>
      [] t = " "   -> <<" ">>
      [] t = "2"   -> <<"2">>
      [] t = " 2 " -> <<" ", "2", " ">>
      [] t = "2.0" -> <<"2", ".", "0">>
      [] t = "-"   -> <<"-">>
      [] t = "x"   -> <<"x">>

\* Faulty variant: the priority is always matched as a text
passPriorityAsText(r) ==
    IF trim(Chars(fPriority)) = <<>> THEN TRUE
    ELSE includes(IntegerString(r.priority), trim(Chars(fPriority)))

passPriority(r) ==
    LET priNum   == IF trim(Chars(fPriority)) # <<>> THEN Number(Chars(fPriority))
                    ELSE undefined
        priIsNum == priNum # undefined /\ priNum # NaN
    IN  IF trim(Chars(fPriority)) = <<>> THEN TRUE
        ELSE IF priIsNum THEN Num(r.priority) = priNum
        ELSE includes(IntegerString(r.priority), trim(Chars(fPriority)))

filtered == SelectSeq(rows, LAMBDA r : passPriority(r))

\* the comparator of data.sort, dir being 1 or -1
compare(a, b, dir) ==
    CASE sortKey = "dateTime" ->
            (getTime(a.dateTimeISO) - getTime(b.dateTimeISO)) * dir
      [] sortKey = "priority" ->
            (a.priority - b.priority) * dir
      [] sortKey = "value" ->
            LET na == parseFloat(replaceComma(a.value))
                nb == parseFloat(replaceComma(b.value))
            IN  IF na # NaN /\ nb # NaN THEN Minus(na, nb) * dir
                ELSE localeCompare(a.value, b.value) * dir

\* one step of the insertion by which the browser sorts a short array: x
\* goes behind the last of the sorted elements that is not greater than it
InsertRow(s, x, dir) ==
    LET notGreater == {i \in 1..Len(s) : compare(s[i], x, dir) <= 0}
        k == IF notGreater = {} THEN 0 ELSE Greatest(notGreater)
    IN  SubSeq(s, 1, k) \o <<x>> \o SubSeq(s, k + 1, Len(s))

RECURSIVE sort(_, _)
\* Array.prototype.sort with the comparator `compare`
sort(data, dir) ==
    IF data = <<>> THEN <<>>
    ELSE InsertRow(sort(SubSeq(data, 1, Len(data) - 1), dir), data[Len(data)], dir)

Reversed(s) == [k \in 1..Len(s) |-> s[Len(s) + 1 - k]]

\* Faulty variant: the descending order is the ascending one turned round
sortedByReversal ==
    IF sortDir = "asc" THEN sort(filtered, 1) ELSE Reversed(sort(filtered, 1))

sorted == sort(filtered, IF sortDir = "asc" THEN 1 ELSE 0 - 1)

\* the first tick of a countdown
EarlyTick ==
    /\ secondsLeft = Interval
    /\ Tick

\* {err ? `Erro: ${err}` : connectionNote || '-'}
Status ==
    IF err # "" THEN "Erro: " \o err
    ELSE IF connectionNote # "" THEN connectionNote
    ELSE "-"

\* the program's state after construction, the history `last` apart
Constructed ==
    /\ phase = "rendered"
    /\ rows = <<>>
    /\ loading = FALSE
    /\ err = ""
    /\ connectionNote = ""
    /\ fAck = "all"
    /\ fDisc = "all"
    /\ autoRefresh = TRUE
    /\ secondsLeft = Interval
    /\ intervalRef = 0
    /\ liveIntervals = 0
    /\ tickClosure = [fAck |-> "all", fDisc |-> "all"]
    /\ comments = <<>>
    /\ store = <<>>
    /\ rounds = <<>>
    /\ fSite = ""
    /\ fPoint = ""
    /\ fValue = ""
    /\ fDateFrom = ""
    /\ fDateTo = ""
    /\ fPriority = ""
    /\ sortKey = "dateTime"
    /\ sortDir = "desc"
    /\ visibleCols = loadVisibleCols
    /\ entered = <<>>

Init ==
    /\ Constructed
    /\ last = Outcome(NewRound([fAck |-> "all", fDisc |-> "all"]))

Next ==
    \/ MountFetch
    \/ MountAutoRefresh
    \/ Tick
    \/ ToggleAutoRefresh
    \/ ManualRefresh
    \/ \E i \in 1..MaxInFlight + 1 : LoginOk(i, AToken)
    \/ \E i \in 1..MaxInFlight + 1 : LoginFail(i)
    \/ \E i \in 1..MaxInFlight + 1, items \in Payloads : AlarmsOk(i, items)
    \/ \E i \in 1..MaxInFlight + 1 : AlarmsFail(i)

Spec == Init /\ [][Next]_vars

(***************************************************************************)
(* The session of a user who writes comments: rounds started by the first  *)
(* load and by the button, the comment fields of the alarms NoteIds, and   *)
(* one filter, one sort header and the comment column's checkbox.          *)
(***************************************************************************)
\* the alarms the user comments on: local id "1" of either backend
NoteIds == {ComposedId(IP100, "1"), ComposedId(IP69, "1")}

NotesNext ==
    \/ MountFetch
    \/ MountAutoRefresh
    \/ ManualRefresh
    \/ \E i \in 1..MaxInFlight + 1 : LoginOk(i, AToken)
    \/ \E i \in 1..MaxInFlight + 1 : LoginFail(i)
    \/ \E i \in 1..MaxInFlight + 1, items \in Payloads : AlarmsOk(i, items)
    \/ \E i \in 1..MaxInFlight + 1 : AlarmsFail(i)
    \/ \E id \in NoteIds, value \in NoteTexts : handleCommentChange(id, value)
    \/ \E id \in NoteIds, written \in BOOLEAN : handleCommentBlur(id, written)
    \/ \E value \in Texts : setFSite(value)
    \/ onSort("dateTime")
    \/ \E written \in BOOLEAN : toggleCol("comentario", written)

NotesSpec == Init /\ [][NotesNext]_vars

(***************************************************************************)
(* The session of a user who filters and sorts with auto-refresh on:       *)
(* rounds started by the first load and by the button, in which a backend  *)
(* fails or answers with MaxItems alarms, the first second of each         *)
(* countdown, every filter, the clear button, the sort headers SortKeys    *)
(* and the comment column's checkbox.                                      *)
(***************************************************************************)
\* the column headers the user clicks
SortKeys == {"dateTime", "priority"}

ViewNext ==
    \/ MountFetch
    \/ MountAutoRefresh
    \/ EarlyTick
    \/ ManualRefresh
    \/ \E i \in 1..MaxInFlight + 1 : LoginOk(i, AToken)
    \/ \E i \in 1..MaxInFlight + 1 : LoginFail(i)
    \/ \E i \in 1..MaxInFlight + 1, items \in {Payload(MaxItems)} : AlarmsOk(i, items)
    \/ \E i \in 1..MaxInFlight + 1 : AlarmsFail(i)
    \/ \E value \in Texts : setFSite(value)
    \/ \E value \in Texts : setFPoint(value)
    \/ \E value \in Texts : setFValue(value)
    \/ \E value \in Dates : setFDateFrom(value)
    \/ \E value \in Dates : setFDateTo(value)
    \/ \E value \in Priorities : setFPriority(value)
    \/ \E value \in TriStates : setFAck(value)
    \/ \E value \in TriStates : setFDisc(value)
    \/ clearFilters
    \/ \E key \in SortKeys : onSort(key)
    \/ \E written \in BOOLEAN : toggleCol("comentario", written)

ViewSpec == Init /\ [][ViewNext]_vars

(***************************************************************************)
(* The projection of one batch: the first load, to which either backend    *)
(* answers with MaxItems of its alarms AlarmKinds, then the priority       *)
(* filter and the sort headers ProjSortKeys.                               *)
(***************************************************************************)
ProjSortKeys == {"dateTime", "priority", "value"}

ProjNext ==
    \/ MountFetch
    \/ MountAutoRefresh
    \/ \E i \in 1..MaxInFlight + 1 : LoginOk(i, AToken)
    \/ \E i \in 1..Len(rounds) :
          \E items \in AlarmPayloads(rounds[i].await.prefix) : AlarmsOk(i, items)
    \/ \E value \in PriorityTexts : setFPriority(value)
    \/ \E key \in ProjSortKeys : onSort(key)

ProjSpec == Init /\ [][ProjNext]_vars

(***************************************************************************)
(* The calls of the rounds: the first load, the ticker, the button, and    *)
(* backends whose logins answer with either token of Tokens.               *)
(***************************************************************************)
AuthNext ==
    \/ MountFetch
    \/ MountAutoRefresh
    \/ Tick
    \/ ManualRefresh
    \/ \E i \in 1..MaxInFlight + 1, token \in Tokens : LoginOk(i, token)
    \/ \E i \in 1..MaxInFlight + 1 : LoginFail(i)
    \/ \E i \in 1..MaxInFlight + 1, items \in {Payload(MaxItems)} : AlarmsOk(i, items)
    \/ \E i \in 1..MaxInFlight + 1 : AlarmsFail(i)

AuthSpec == Init /\ [][AuthNext]_vars

(***************************************************************************)
(* The flags of the rounds: the first load, the ticker, the button, the    *)
(* backends, and a user who changes the acknowledged filter.               *)
(***************************************************************************)
FlagsNext ==
    \/ MountFetch
    \/ MountAutoRefresh
    \/ Tick
    \/ ManualRefresh
    \/ \E i \in 1..MaxInFlight + 1 : LoginOk(i, AToken)
    \/ \E i \in 1..MaxInFlight + 1 : LoginFail(i)
    \/ \E i \in 1..MaxInFlight + 1, items \in {Payload(MaxItems)} : AlarmsOk(i, items)
    \/ \E i \in 1..MaxInFlight + 1 : AlarmsFail(i)
    \/ \E value \in TriStates : setFAck(value)

FlagsSpec == Init /\ [][FlagsNext]_vars

(***************************************************************************)
(* The rounds that overlap: the first load, the ticker, the button and the *)
(* backends, with the history of the order in which the rounds started     *)
(* and ended.                                                              *)
(***************************************************************************)
OverlapInit ==
    /\ Constructed
    /\ last = [Outcome(NewRound([fAck |-> "all", fDisc |-> "all"])) EXCEPT !.overtook = "no"]

OverlapNext ==
    \/ MountFetch
    \/ MountAutoRefresh
    \/ Tick
    \/ ManualRefresh
    \/ \E i \in 1..MaxInFlight + 1 : LoginOk(i, AToken)
    \/ \E i \in 1..MaxInFlight + 1 : LoginFail(i)
    \/ \E i \in 1..MaxInFlight + 1, items \in Payloads : AlarmsOk(i, items)
    \/ \E i \in 1..MaxInFlight + 1 : AlarmsFail(i)

OverlapSpec == OverlapInit /\ [][OverlapNext]_vars

(***************************************************************************)
(* Notions the properties below use.                                       *)
(***************************************************************************)
\* an execution of fetchData returns in this step
RoundEnds == Len(rounds') < Len(rounds)

\* o is the outcome of a round that has ended
Ended(o) == Len(o.successes) + Len(o.failures) > 0

\* the row was built from an item of the backend ip
FromSource(row, ip) ==
    \E p \in Payloads : \E k \in 1..Len(p) : row.id = ComposedId(ip, p[k].id)

InSeq(x, s) == \E k \in 1..Len(s) : s[k] = x

\* the items of itemsAll that came from ip, in order
ItemsOf(itemsAll, ip) == SelectSeq(itemsAll, LAMBDA x : x.fromIp = ip)

\* the items p as fetchData tags them for the backend ip
Tagged(p, ip) == [k \in 1..Len(p) |-> [fromIp |-> ip, item |-> p[k]]]

\* the prefixes round r has a request out to
Pending(r) == {r.await.prefix}

(***************************************************************************)
(* C1: at most one execution of fetchData is in flight at any time.        *)
(* The interval callback calls fetchData without looking at loading, so    *)
(* the 60th tick of a round that is still running starts a second one.     *)
(***************************************************************************)
C1_AtMostOneRound == Len(rounds) <= 1

(***************************************************************************)
(* C2: when a round ends with a backend failed, the rows shown before      *)
(* that came from that backend are still shown after it.  fetchData calls  *)
(* setRows(mapped) whatever the outcome, and mapped holds only the items   *)
(* of the backends that answered in this round.                            *)
(***************************************************************************)
C2_StaleRowsKept ==
    [][RoundEnds =>
          \A k \in 1..Len(rows) :
              (\E n \in 1..Len(last'.failures) : FromSource(rows[k], last'.failures[n]))
                  => InSeq(rows[k], rows')]_vars

(***************************************************************************)
(* C3: a failure of one backend, at login or at retrieval, does not keep   *)
(* the other from being asked and its items from being merged, and rows    *)
(* and status note are produced only at the end of a round, when both      *)
(* backends have settled, whichever of them answered.                      *)
(***************************************************************************)
C3_FailureIsolated ==
    \* a round in which /api100 has failed goes on to ask /api69
    /\ \A i \in 1..Len(rounds) :
          rounds[i].failures # <<>>
              => /\ rounds[i].failures = <<IP100>>
                 /\ rounds[i].await.prefix = API69
    \* a round that has ended has the outcome of both backends, and the rows
    \* are the items of those that answered
    /\ Ended(last)
          => /\ Len(last.successes) + Len(last.failures) = 2
             /\ \A ip \in {IP100, IP69} :
                   LET n == IF ip = IP100 THEN last.c100 ELSE last.c69
                   IN  IF InSeq(ip, last.successes)
                          THEN /\ ~InSeq(ip, last.failures)
                               /\ ItemsOf(last.itemsAll, ip) \in {Tagged(p, ip) : p \in Payloads}
                               /\ Len(ItemsOf(last.itemsAll, ip)) = n
                          ELSE /\ InSeq(ip, last.failures)
                               /\ ItemsOf(last.itemsAll, ip) = <<>>
             /\ rows = Mapped(last.itemsAll)
    \* before the first round has ended there are no rows and no note
    /\ ~Ended(last) => rows = <<>> /\ connectionNote = ""
    \* a note is on display only when no round has started since one ended
    /\ connectionNote # "" => ~loading /\ connectionNote = StatusNote(last)

\* /api100 failed, /api69 answered with its items, and the round has ended
C3_Witness ==
    /\ rounds = <<>>
    /\ last.failures = <<IP100>>
    /\ last.successes = <<IP69>>
    /\ connectionNote = "Parcial - ok: 10.2.1.69 / falha: 10.2.1.100"
    /\ rows = Mapped(Tagged(Payload(MaxItems), IP69))
    /\ rows[1] = [id |-> "10.2.1.69-1"]

C5_PausedValueKept ==
    [][(~autoRefresh /\ ~autoRefresh' /\ ~Ended(last)) => secondsLeft' = secondsLeft]_vars

(***************************************************************************)
(* C5 as amended: pausing and resuming leave the countdown as it is and    *)
(* no ticker lives while Paused; while Paused the countdown changes only   *)
(* when a round ends, which sets it to 60.                                 *)
(***************************************************************************)
C5_PauseKeepsCountdown ==
    [][/\ autoRefresh' # autoRefresh => secondsLeft' = secondsLeft
       /\ ~autoRefresh' => liveIntervals' = 0
       /\ (~autoRefresh /\ ~autoRefresh' /\ secondsLeft' # secondsLeft)
             => secondsLeft' = Interval /\ RoundEnds]_vars

\* Paused with a round in flight, the countdown where the pause left it
C5_Witness ==
    /\ ~autoRefresh
    /\ liveIntervals = 0
    /\ Len(rounds) > 0
    /\ ~Ended(last)
    /\ secondsLeft < Interval

(***************************************************************************)
(* C6 as stated: a manual refresh starts a round at once, sets the         *)
(* countdown to 60 at the moment of the click and keeps Active/Paused.     *)
(***************************************************************************)
C6_ManualResetsAtClick ==
    [][ManualRefresh
          => /\ Len(rounds') = Len(rounds) + 1
             /\ secondsLeft' = Interval
             /\ autoRefresh' = autoRefresh]_vars

(***************************************************************************)
(* C6 as amended: a manual refresh (the button takes it while loading is   *)
(* off, Active or Paused) starts a round at once and leaves the countdown  *)
(* and Active/Paused as they are; the countdown is set to 60 when a round  *)
(* ends, and that leaves Active/Paused as it is too.                       *)
(***************************************************************************)
C6_ManualResetsAtEnd ==
    [][/\ ManualRefresh
             => /\ rounds' = Append(rounds, NewRound(Closure))
                /\ loading'
                /\ secondsLeft' = secondsLeft
                /\ autoRefresh' = autoRefresh
                /\ liveIntervals' = liveIntervals
       /\ RoundEnds
             => /\ secondsLeft' = Interval
                /\ autoRefresh' = autoRefresh
                /\ liveIntervals' = liveIntervals]_vars

\* Paused, a round has been started since the last one ended, and the
\* countdown is not 60
C6_Witness ==
    /\ ~autoRefresh
    /\ Ended(last)
    /\ rounds = <<NewRound(Closure)>>
    /\ loading
    /\ secondsLeft < Interval

(***************************************************************************)
(* C7: while Active a tick that finds the countdown above 1 lowers it by   *)
(* one and starts no round; the tick that finds it at 1 starts exactly one *)
(* round and sets it to 60; ticks happen only while Active, and the        *)
(* countdown is lowered by nothing else.                                   *)
(***************************************************************************)
C7_TickCountsDown ==
    [][/\ Tick => /\ autoRefresh
                  /\ secondsLeft >= 1
                  /\ IF secondsLeft > 1
                        THEN secondsLeft' = secondsLeft - 1 /\ rounds' = rounds
                        ELSE /\ secondsLeft' = Interval
                             /\ Len(rounds') = Len(rounds) + 1
                             /\ \A k \in 1..Len(rounds) : rounds'[k] = rounds[k]
       /\ secondsLeft' < secondsLeft => Tick]_vars

\* the countdown has expired while the first round was running
C7_Witness ==
    /\ autoRefresh
    /\ Len(rounds) = 2
    /\ secondsLeft = Interval
    /\ ~Ended(last)
    /\ rounds[2].await = [prefix |-> API100, call |-> "login"]

(***************************************************************************)
(* C8: on first load the scheduler is Active with the countdown at 60,     *)
(* and exactly one round is started before the ticker is set, so before    *)
(* any tick.                                                               *)
(***************************************************************************)
C8_FirstLoad ==
    /\ phase = "rendered"
          => autoRefresh /\ secondsLeft = Interval /\ rounds = <<>> /\ liveIntervals = 0
    /\ phase = "fetched"
          => /\ autoRefresh /\ secondsLeft = Interval
             /\ Len(rounds) = 1 /\ loading
             /\ intervalRef = 0 /\ liveIntervals = 0
    /\ liveIntervals > 0 => phase = "ready"

\* the ticker is set, the first round is running and no tick has come yet
C8_Witness ==
    /\ phase = "ready"
    /\ liveIntervals = 1
    /\ secondsLeft = Interval
    /\ Len(rounds) = 1
    /\ ~Ended(last)

(***************************************************************************)
(* C9 as stated: after a round in which both backends fail, the error      *)
(* indicator err is set and the status is shown as an error.               *)
(***************************************************************************)
C9_ErrorIndicatorSet ==
    (~loading /\ Len(last.failures) = 2) => err # "" /\ Status = "Erro: " \o err

(***************************************************************************)
(* C9 as amended: after a round in which both backends fail err is empty   *)
(* and the status shown is the connection note "Falha nas duas conexoes";  *)
(* the status shown after a round is that text exactly when both backends  *)
(* failed, so it differs from the status after a partial round and after   *)
(* a round in which both answered.                                         *)
(***************************************************************************)
C9_AllFailedNote ==
    (~loading /\ Ended(last))
        => /\ Len(last.failures) = 2 => err = ""
           /\ Len(last.failures) = 2 <=> Status = "Falha nas duas conexoes"

\* both backends have failed and no round is running
C9_Witness ==
    /\ rounds = <<>>
    /\ ~loading
    /\ last.failures = <<IP100, IP69>>
    /\ err = ""
    /\ Status = "Falha nas duas conexoes"

(***************************************************************************)
(* C10: a round in which exactly one backend answers ends with the note    *)
(* "Parcial - ok: <the one that answered> / falha: <the one that failed>", *)
(* with err empty, and with rows that are exactly the items of the backend *)
(* that answered, in its order.                                            *)
(***************************************************************************)
C10_Partial ==
    Len(last.successes) = 1
        => LET ok == last.successes[1]
               ko == CHOOSE ip \in {IP100, IP69} : ip # ok
           IN  /\ ok \in {IP100, IP69}
               /\ last.failures = <<ko>>
               /\ ItemsOf(last.itemsAll, ko) = <<>>
               /\ rows = Mapped(ItemsOf(last.itemsAll, ok))
               /\ Len(rows) = IF ok = IP100 THEN last.c100 ELSE last.c69
               /\ ~loading
                     => /\ connectionNote = "Parcial - ok: " \o ok \o " / falha: " \o ko
                        /\ err = ""
                        /\ Status = connectionNote

\* /api100 answered with its items, /api69 failed, and the round has ended
C10_Witness ==
    /\ rounds = <<>>
    /\ ~loading
    /\ last.successes = <<IP100>>
    /\ connectionNote = "Parcial - ok: 10.2.1.100 / falha: 10.2.1.69"
    /\ rows = Mapped(Tagged(Payload(MaxItems), IP100))
    /\ rows[1] = [id |-> "10.2.1.100-1"]

(***************************************************************************)
(* C11: after a round has ended, the rows it produced are as many as the   *)
(* items returned by the backends that answered in it: the sum of c100     *)
(* and c69 over the successes, a backend that failed counting 0.           *)
(***************************************************************************)
C11_MergedCount ==
    Ended(last)
        => LET Counted(ip, c) == IF InSeq(ip, last.successes) THEN c ELSE 0
           IN  /\ Len(rows) = Counted(IP100, last.c100) + Counted(IP69, last.c69)
               /\ Len(last.itemsAll) = Len(rows)
               /\ InSeq(IP100, last.failures) => last.c100 = 0
               /\ InSeq(IP69, last.failures) => last.c69 = 0

\* both backends answered with MaxItems alarms: twice as many rows
C11_Witness ==
    /\ rounds = <<>>
    /\ last.successes = <<IP100, IP69>>
    /\ last.c100 = MaxItems
    /\ last.c69 = MaxItems
    /\ Len(rows) = 2 * MaxItems

(***************************************************************************)
(* C12: when the write of a commit has failed, the text the user entered   *)
(* stays the text on display for that row id, for as long as the id is on  *)
(* display and the user types nothing else, whatever rounds end.           *)
(* fetchData builds the comments anew from localStorage at the end of      *)
(* every round, and the text is not there.                                 *)
(***************************************************************************)
C12_UnsavedTextStays ==
    \A id \in DOMAIN entered \cap DOMAIN comments :
        entered[id].state = "failed" => comments[id] = entered[id].text

(***************************************************************************)
(* C13: a round that ends while the user has typed a text and not yet      *)
(* left the field keeps that text on display for the row id, and leaving   *)
(* the field afterwards stores the typed text.  The hydration at the end   *)
(* of the round puts the stored text in its place, and it is that text     *)
(* that handleCommentBlur then saves.                                      *)
(***************************************************************************)
C13_TypedTextSurvivesRound ==
    [][\A id \in DOMAIN entered :
          entered[id].state = "typed"
              => /\ (RoundEnds /\ id \in DOMAIN comments')
                       => comments'[id] = entered[id].text
                 /\ handleCommentBlur(id, TRUE)
                       => store'[COMMENT_KEY(id)] = entered[id].text]_vars

\* the text localStorage holds for the row id, empty when it holds none
StoredText(id) == IF COMMENT_KEY(id) \in DOMAIN store THEN store[COMMENT_KEY(id)] ELSE ""

(***************************************************************************)
(* C14 as stated: the end of a round replaces the rows, and the comments   *)
(* then have exactly the ids of the new rows as keys, each with the text   *)
(* stored for it, or the empty text when nothing is stored for it.         *)
(***************************************************************************)
C14_HydratedFromStore ==
    [][RoundEnds
          => /\ rows' = Mapped(last'.itemsAll)
             /\ DOMAIN comments' = RowIds'
             /\ \A id \in RowIds' : comments'[id] = StoredText(id)]_vars

(***************************************************************************)
(* C14 as amended: the end of a round replaces the rows, and the comments  *)
(* then have exactly the ids of the new rows as keys, each with the text   *)
(* stored for it, or the empty text when nothing is stored for it or       *)
(* localStorage cannot be read; rows and the keys of the comments change   *)
(* at the end of a round and at no other step.                             *)
(***************************************************************************)
C14_HydratedOrEmpty ==
    [][/\ RoundEnds
             => /\ rows' = Mapped(last'.itemsAll)
                /\ DOMAIN comments' = RowIds'
                /\ \/ \A id \in RowIds' : comments'[id] = StoredText(id)
                   \/ \A id \in RowIds' : comments'[id] = ""
       /\ ~RoundEnds
             => /\ rows' = rows
                /\ DOMAIN comments' = DOMAIN comments]_vars

\* a row whose stored text a hydration could not read: the text was on
\* display when it was stored, and the field is empty now
C14_Witness ==
    /\ rounds = <<>>
    /\ DOMAIN comments = RowIds
    /\ \E id \in RowIds : StoredText(id) = "nota" /\ comments[id] = ""

\* the ids of the rows the backends' answers can give
AllIds == {ComposedId(ip, Payload(MaxItems)[k].id) : ip \in {IP100, IP69}, k \in 1..MaxItems}

\* what localStorage holds apart from the column choice
Notes(st) == [k \in DOMAIN st \ {COLS_KEY} |-> st[k]]

(***************************************************************************)
(* C15: the comments in localStorage change only in a step in which the    *)
(* user leaves a comment field; typing changes the text in memory of that  *)
(* row and nothing in localStorage, and no step of a round, no filter      *)
(* input, no click on a sort header or a column checkbox changes a stored  *)
(* comment.                                                                *)
(***************************************************************************)
C15_StoredOnBlurOnly ==
    [][/\ Notes(store') # Notes(store)
             => \E id \in NoteIds : handleCommentBlur(id, TRUE)
       /\ \A id \in NoteIds, value \in NoteTexts :
             handleCommentChange(id, value)
                 => /\ store' = store
                    /\ comments'[id] = value
                    /\ \A o \in DOMAIN comments \ {id} : comments'[o] = comments[o]
       /\ (rounds' # rounds \/ viewVars' # viewVars \/ fAck' # fAck \/ fDisc' # fDisc)
             => Notes(store') = Notes(store)]_vars

\* a comment stored by a commit, another typed and not stored, and the
\* filter, the sort and the columns changed (the column choice is stored)
C15_Witness ==
    /\ \E id \in RowIds : StoredText(id) = "nota"
    /\ \E id \in RowIds : comments[id] = "nota" /\ COMMENT_KEY(id) \notin DOMAIN store
    /\ fSite # ""
    /\ sortDir = "asc"
    /\ COLS_KEY \in DOMAIN store

(***************************************************************************)
(* C16: the comments are kept by row id, the backend's address joined to   *)
(* the alarm's local id.  Leaving the comment field of one row changes     *)
(* the stored text of that row id and of no other, and no text on          *)
(* display; no step of a round changes what is stored; and a row that has  *)
(* nothing stored under its own id is hydrated with the empty text,        *)
(* whatever is stored for the alarm of the other backend with the same     *)
(* local id.                                                               *)
(***************************************************************************)
C16_KeyedByIdentity ==
    [][/\ \A id \in NoteIds, written \in BOOLEAN :
             handleCommentBlur(id, written)
                 => /\ comments' = comments
                    /\ \A o \in AllIds \ {id} : StoredText(o)' = StoredText(o)
                    /\ written => StoredText(id)' = comments[id]
       /\ rounds' # rounds => store' = store
       /\ RoundEnds
             => \A id \in RowIds' :
                   COMMENT_KEY(id) \notin DOMAIN store => comments'[id] = ""]_vars

\* "nota" is stored for alarm 1 of 10.2.1.100; a later round has brought
\* alarm 1 of 10.2.1.69 without it, and that row's comment is empty
C16_Witness ==
    /\ rounds = <<>>
    /\ StoredText(ComposedId(IP100, "1")) = "nota"
    /\ ComposedId(IP100, "1") \notin RowIds
    /\ ComposedId(IP69, "1") \in RowIds
    /\ COMMENT_KEY(ComposedId(IP69, "1")) \notin DOMAIN store
    /\ comments[ComposedId(IP69, "1")] = ""
    /\ ComposedId(IP69, "1") \notin DOMAIN entered

\* local ids a backend may give: those of the answers, and ids that look
\* like the tail of a row id
LocalIds == {Payload(MaxItems)[k].id : k \in 1..MaxItems}
                \cup {"", "69-1", "100-1", "-1", "10.2.1.69-1", "10.2.1.100-1"}

(***************************************************************************)
(* C17: the row ids of two alarms that come from different backends        *)
(* differ, whatever their local ids, equal ones included; in every merged  *)
(* batch, a backend's local ids being distinct, the row ids are pairwise   *)
(* distinct.                                                               *)
(***************************************************************************)
C17_IdentityInjective ==
    \* a fact about ComposedId alone: one state is enough to evaluate it
    /\ phase = "rendered" => \A a, b \in LocalIds : ComposedId(IP100, a) # ComposedId(IP69, b)
    /\ \A k, j \in 1..Len(rows) : k # j => rows[k].id # rows[j].id
    /\ Ended(last)
          => \A k, j \in 1..Len(rows) :
                last.itemsAll[k].fromIp # last.itemsAll[j].fromIp => rows[k].id # rows[j].id

\* both backends have answered with the local ids 1 .. MaxItems
C17_Witness ==
    /\ InSeq([id |-> "10.2.1.100-1"], rows)
    /\ InSeq([id |-> "10.2.1.69-1"], rows)
    /\ last.itemsAll[1].item.id = last.itemsAll[MaxItems + 1].item.id
    /\ Len(rows) = 2 * MaxItems

(***************************************************************************)
(* C18: a step of a round (its start by the first load or the button,     *)
(* the answer or failure of a backend, its end) leaves the eight filters,  *)
(* the sort key, the sort direction and the visible columns as they are.   *)
(***************************************************************************)
C18_RoundKeepsView ==
    [][rounds' # rounds
          => /\ viewVars' = viewVars
             /\ fAck' = fAck
             /\ fDisc' = fDisc]_vars

\* a round started under a filter, with the sort and the columns changed,
\* has had its answer from /api100
C18_Witness ==
    /\ Len(rounds) = 1
    /\ rounds[1].opts.isAcknowledged = "true"
    /\ rounds[1].await.prefix = API69
    /\ fAck = "sim"
    /\ sortKey = "priority"
    /\ sortDir = "desc"
    /\ ~visibleCols["comentario"]

(***************************************************************************)
(* C19: the clear button sets the eight filters to their initial values    *)
(* and the sort to dateTime, descending, from whatever they were; it       *)
(* starts no round and leaves the rows, the comments, the visible          *)
(* columns, the countdown, auto-refresh and everything else as they are.   *)
(***************************************************************************)
C19_ClearResets ==
    [][clearFilters
          => /\ fSite' = "" /\ fPoint' = "" /\ fValue' = ""
             /\ fDateFrom' = "" /\ fDateTo' = "" /\ fPriority' = ""
             /\ fAck' = "all" /\ fDisc' = "all"
             /\ sortKey' = "dateTime" /\ sortDir' = "desc"
             /\ UNCHANGED <<rounds, loading, rows, comments, store, visibleCols,
                            secondsLeft, autoRefresh, intervalRef, liveIntervals,
                            err, connectionNote>>]_vars

\* the clear button is about to act on a filter that is set and a sort
\* that is not the default, with rows on display, a column hidden, the
\* countdown under way and a round in flight
C19_Witness ==
    /\ phase = "ready"
    /\ fPriority = "2"
    /\ sortKey = "priority"
    /\ sortDir = "asc"
    /\ Len(rows) = 2 * MaxItems
    /\ ~visibleCols["comentario"]
    /\ secondsLeft < Interval
    /\ Len(rounds) = 1

(***************************************************************************)
(* C20: in every merged batch the rows of 10.2.1.100 come before the rows  *)
(* of 10.2.1.69, and the rows of one backend are in the order of its       *)
(* answer.  (/api69 is asked when /api100 has settled, so the answers      *)
(* arrive in this order too.)                                              *)
(***************************************************************************)
C20_SourceOrder ==
    Ended(last)
        => /\ rows = Mapped(last.itemsAll)
           /\ \E p100, p69 \in Payloads :
                 last.itemsAll = Tagged(p100, IP100) \o Tagged(p69, IP69)
           /\ \A k, j \in 1..Len(rows) :
                 (k < j /\ last.itemsAll[k].fromIp = IP69) => last.itemsAll[j].fromIp = IP69

\* MaxItems rows of 10.2.1.100 in the order of the answer, then those of
\* 10.2.1.69
C20_Witness ==
    /\ Len(rows) = 2 * MaxItems
    /\ \A k \in 1..MaxItems :
          /\ rows[k].id = ComposedId(IP100, Payload(MaxItems)[k].id)
          /\ rows[MaxItems + k].id = ComposedId(IP69, Payload(MaxItems)[k].id)

(***************************************************************************)
(* C21.  Sorting is stable.  The rows on display are the filtered rows,    *)
(* in an order the comparator accepts; two of them whose values for the    *)
(* active sort key compare equal stand in the order of the merged batch,   *)
(* ascending as well as descending; and sorting the rows on display again  *)
(* with the same key and direction gives the same sequence.                *)
(***************************************************************************)
\* the place of a row in the merged batch
Place(id) == CHOOSE k \in 1..Len(rows) : rows[k].id = id

Direction == IF sortDir = "asc" THEN 1 ELSE 0 - 1

C21_StableSort ==
    LET s == sorted
    IN  /\ Len(s) = Len(filtered)
        /\ \A k \in 1..Len(filtered) : InSeq(filtered[k], s)
        /\ \A i, j \in 1..Len(s) :
              i < j => /\ compare(s[i], s[j], Direction) <= 0
                       /\ compare(s[i], s[j], 1) = 0 => Place(s[i].id) < Place(s[j].id)
        /\ sort(s, Direction) = s

\* descending by priority, a tie across the two backends below a row of
\* higher priority
C21_Witness ==
    /\ sortKey = "priority"
    /\ sortDir = "desc"
    /\ \E i, j, k \in 1..Len(sorted) :
          /\ k < i
          /\ i < j
          /\ sorted[k].priority > sorted[i].priority
          /\ sorted[i].priority = sorted[j].priority
          /\ FromSource(sorted[i], IP100)
          /\ FromSource(sorted[j], IP69)

(***************************************************************************)
(* C22.  The priority predicate.  An empty or blank filter passes every    *)
(* row; a filter that parses as a number passes the rows whose priority    *)
(* is that number and no other (2, also written " 2 " or "2.0", passes     *)
(* priority 2 and neither 12 nor -1); a filter that does not parse as a    *)
(* number passes the rows whose priority, written as a text, contains the  *)
(* trimmed filter ("-" passes the negative priority, "x" none).            *)
(***************************************************************************)
C22_PriorityPredicate ==
    \A k \in 1..Len(rows) :
        LET text   == Chars(fPriority)
            p      == rows[k].priority
            passes == InSeq(rows[k], filtered)
        IN  /\ trim(text) = <<>> => passes
            /\ (trim(text) # <<>> /\ Number(text) # NaN) => (passes <=> Num(p) = Number(text))
            /\ (trim(text) # <<>> /\ Number(text) = NaN)
                  => (passes <=> includes(IntegerString(p), trim(text)))
            /\ fPriority \in {"", " "} => passes
            /\ fPriority \in {"2", " 2 ", "2.0"} => (passes <=> p = 2)
            /\ fPriority = "-" => (passes <=> p < 0)
            /\ fPriority = "x" => ~passes

\* the filter 2 over the priorities 1, 2, 2, 3, and over a batch with 12
C22_Witness ==
    /\ fPriority = "2"
    /\ Len(rows) = 4
    /\ \/ [k \in 1..4 |-> rows[k].priority] = <<1, 2, 2, 3>>
       \/ [k \in 1..4 |-> rows[k].priority] = <<2, 12, 2, 0 - 1>>
    /\ Len(filtered) = 2
    /\ \A k \in 1..2 : filtered[k].priority = 2

(***************************************************************************)
(* C23.  A click on the header of the active sort key keeps the key and    *)
(* turns the direction round; a click on another header makes its key the  *)
(* active one, ascending, whatever the direction was; and the click        *)
(* changes neither a filter nor the rows, the comments, the countdown or   *)
(* anything else.                                                          *)
(***************************************************************************)
C23_SortClick ==
    [][\A key \in SortKeys : onSort(key) =>
          /\ sortKey' = key
          /\ key = sortKey => sortDir' # sortDir /\ sortDir' \in {"asc", "desc"}
          /\ key # sortKey => sortDir' = "asc"
          /\ UNCHANGED <<fSite, fPoint, fValue, fDateFrom, fDateTo, fPriority, fAck, fDisc,
                         visibleCols, rows, comments, store, secondsLeft, loading, err,
                         connectionNote, autoRefresh, rounds, liveIntervals>>]_vars

\* the priority header was clicked while the order was descending, then
\* clicked again, with rows on display and a round in flight
C23_Witness ==
    /\ sortKey = "priority"
    /\ sortDir = "desc"
    /\ rows # <<>>
    /\ rounds # <<>>

(***************************************************************************)
(* C24.  The calls of one round.  A round starts with the login to         *)
(* /api100; a request for alarms is sent only by the round whose login to  *)
(* the same backend has just answered, and carries the token of that       *)
(* answer; after the outcome of /api100, whatever it is, comes the login   *)
(* to /api69, and after the outcome of /api69 the round ends.  So a round  *)
(* sends each backend one login and at most one request for alarms, and    *)
(* calls no backend again after its failure.                               *)
(***************************************************************************)
\* round i of this state goes from the request `from` to the request `to`
Moves(i, from, to) == rounds[i].await = from /\ rounds'[i].await = to

C24_CallsOfARound ==
    [][\/ /\ Len(rounds') = Len(rounds) + 1
          /\ SubSeq(rounds', 1, Len(rounds)) = rounds
          /\ rounds'[Len(rounds')].await = [prefix |-> API100, call |-> "login"]
       \/ /\ Len(rounds') = Len(rounds)
          /\ \A i \in 1..Len(rounds) :
                \/ rounds'[i].await = rounds[i].await
                \/ \E prefix \in {API100, API69}, token \in Tokens :
                      /\ LoginOk(i, token)
                      /\ Moves(i, [prefix |-> prefix, call |-> "login"],
                               [prefix |-> prefix, call |-> "alarms", token |-> token])
                \/ /\ rounds[i].await.prefix = API100
                   /\ rounds'[i].await = [prefix |-> API69, call |-> "login"]
                   /\ Len(rounds'[i].successes) + Len(rounds'[i].failures) = 1
       \/ /\ Len(rounds') = Len(rounds) - 1
          /\ \E i \in 1..Len(rounds) :
                /\ rounds' = RemoveAt(rounds, i)
                /\ rounds[i].await.prefix = API69
                /\ Len(last'.successes) + Len(last'.failures) = 2]_rounds

\* after an earlier round has ended, a round that got its alarms from
\* /api100 asks /api69 for its alarms with the token its login has just
\* answered, while a later round waits for its login to /api100
C24_Witness ==
    /\ Len(rounds) = 2
    /\ rounds[1].successes = <<IP100>>
    /\ rounds[1].await = [prefix |-> API69, call |-> "alarms", token |-> "token-2"]
    /\ rounds[2].await = [prefix |-> API100, call |-> "login"]
    /\ Ended(last)

(***************************************************************************)
(* C25.  Every round that starts, by the ticker as by the button, sends    *)
(* the flags of the acknowledged and discarded filters as they are when    *)
(* it starts, also when a filter was changed after the ticker was set.     *)
(***************************************************************************)
C25_FlagsInForce ==
    [][Len(rounds') = Len(rounds) + 1
          => rounds'[Len(rounds')].opts = Opts([fAck |-> fAck, fDisc |-> fDisc])]_vars

(***************************************************************************)
(* C26.  The loading flag is on exactly while a round is in flight: from   *)
(* the start of a round until every round in flight has ended, so that     *)
(* the button is never enabled while a round still runs.                   *)
(***************************************************************************)
C26_LoadingWhileInFlight == loading <=> rounds # <<>>

(***************************************************************************)
(* C27.  When rounds overlap, what is displayed once they have all ended   *)
(* is the result of the round that started last.  Here the round that      *)
(* ended last before this step had ended before an older one, and the      *)
(* older one, the only round left, ends now: the rows, the status note and *)
(* the comment fields are to stay those of the round that started last.    *)
(***************************************************************************)
C27_LastStartedWins ==
    [][(RoundEnds /\ rounds' = <<>> /\ last.overtook = "yes")
          => /\ rows' = Mapped(last.itemsAll)
             /\ connectionNote' = StatusNote(last)
             /\ DOMAIN comments' = {rows[k].id : k \in 1..Len(rows)}]_vars

C29_CountdownRange == secondsLeft \in 1..Interval

\* the countdown, restarted by the end of a round, has been paused at 1
\* while a later round is in flight
C29_Witness ==
    /\ secondsLeft = 1
    /\ ~autoRefresh
    /\ Ended(last)
    /\ rounds # <<>>

(***************************************************************************)
(* C30.  At most one ticker is set at any time: once the effects of the    *)
(* first render have run, one while auto-refresh is on and none while it   *)
(* is off, after any sequence of pauses and resumptions; so no step takes  *)
(* more than one second off the countdown, and none takes any while        *)
(* auto-refresh is off.                                                    *)
(***************************************************************************)
C30_OneTicker ==
    [][/\ liveIntervals' <= 1
       /\ phase' = "ready" => liveIntervals' = One(autoRefresh')
       /\ intervalRef' = liveIntervals'
       /\ secondsLeft' >= secondsLeft - 1
       /\ ~autoRefresh => secondsLeft' >= secondsLeft]_vars

\* auto-refresh is off, no ticker is set, and the countdown stands where
\* the ticks after the end of a round have brought it
C30_Witness ==
    /\ ~autoRefresh
    /\ liveIntervals = 0
    /\ Ended(last)
    /\ secondsLeft = Interval - 2
    /\ rounds = <<>>

====
